---- MODULE Spec2Model ----
(***************************************************************************)
(* A model of MMReconcile.py: the combinatorial matcher                    *)
(* (find_matching_transactions), the estimator, the resolution applier     *)
(* (process_potential_matches) and the per-account orchestrator            *)
(* (reconcile_accounts) over an SQLite connection.                         *)
(*                                                                         *)
(* Money.  Amounts and balances are REAL columns / floats that may carry   *)
(* more than two decimals; they are modelled as integers counting mills    *)
(* (1/10 cent).  A value quantized with .quantize(cent) is modelled as an  *)
(* integer counting cents, so quantization is a real conversion.           *)
(* Dates are 'YYYY-MM-DD' strings compared lexicographically; they are     *)
(* modelled as day numbers.                                                *)
(***************************************************************************)
EXTENDS Integers, Sequences, FiniteSets, TLC

(***************************************************************************)
(* Bounds of the model.                                                    *)
(***************************************************************************)
\* Longest pool handed to the matcher in the matcher specification.
MaxPool == 3

\* Amounts (mills) of the pools of the matcher specification: a debit, a
\* half-cent tie, a credit and a credit with a sub-cent part.
MatchAmounts == {-10, 5, 10, 16}

\* Discrepancies (cents) of the matcher specification.
MatchDiscrepancies == {-2, 0, 1}

(***************************************************************************)
(* Money: cent and quantize (src lines 41-43).                             *)
(***************************************************************************)
\* Mills per cent: cent = Decimal('.01') seen from the mill scale.
MillsPerCent == 10

\* Decimal.quantize(cent) under ROUND_HALF_UP: to the nearest cent, ties away
\* from zero.  Mills in, cents out.
Quantize(x) ==
    IF x >= 0 THEN (2 * x + MillsPerCent) \div (2 * MillsPerCent)
              ELSE -((2 * (-x) + MillsPerCent) \div (2 * MillsPerCent))

\* A value in cents written back on the mill scale.
CentsToMills(c) == c * MillsPerCent

(***************************************************************************)
(* Transactions as the matcher sees them: (id, date, amount) tuples.       *)
(***************************************************************************)
TransId(trans) == trans[1]

TransDate(trans) == trans[2]

TransAmount(trans) == trans[3]

RECURSIVE SumAmounts(_)
\* sum(Decimal(trans[2]) for trans in combo), in mills.
SumAmounts(combo) ==
    IF combo = <<>> THEN 0
    ELSE TransAmount(Head(combo)) + SumAmounts(Tail(combo))

\* Decimal(sum(...)).quantize(cent), in cents.
ComboSum(combo) == Quantize(SumAmounts(combo))

RECURSIVE comb(_, _)
\* math.comb(n, r): the binomial coefficient, 0 when r > n.
comb(n, r) ==
    IF r = 0 THEN 1
    ELSE IF r > n THEN 0
    ELSE comb(n - 1, r - 1) + comb(n - 1, r)

RECURSIVE SumComb(_, _, _)
\* sum(comb(n, r) for r in range(r_min, r_max + 1)).
SumComb(n, r_min, r_max) ==
    IF r_min > r_max THEN 0
    ELSE comb(n, r_min) + SumComb(n, r_min + 1, r_max)

RECURSIVE PrependAll(_, _)
\* Every sequence of cs with x put in front, in order.
PrependAll(x, cs) ==
    IF cs = <<>> THEN <<>>
    ELSE << <<x>> \o Head(cs) >> \o PrependAll(x, Tail(cs))

RECURSIVE combinations(_, _)
\* itertools.combinations(s, r): the r-length subsequences of s by position,
\* in lexicographic order of the positions.
combinations(s, r) ==
    IF r = 0 THEN << <<>> >>
    ELSE IF Len(s) < r THEN <<>>
    ELSE PrependAll(Head(s), combinations(Tail(s), r - 1))
            \o combinations(Tail(s), r)

RECURSIVE SelectMatching(_, _)
\* The combos of cs, in order, whose quantized sum equals -discrepancy.
SelectMatching(cs, discrepancy) ==
    IF cs = <<>> THEN <<>>
    ELSE (IF ComboSum(Head(cs)) = -discrepancy THEN <<Head(cs)>> ELSE <<>>)
            \o SelectMatching(Tail(cs), discrepancy)

\* process_combinations(transactions, discrepancy, r): one worker task.
process_combinations(transactions, discrepancy, r) ==
    SelectMatching(combinations(transactions, r), discrepancy)

RECURSIVE SerialFrom(_, _, _, _)
\* The body of the serial loop from size r on.
SerialFrom(transactions, discrepancy, r, r_max) ==
    IF r > r_max THEN <<>>
    ELSE SelectMatching(combinations(transactions, r), discrepancy)
            \o SerialFrom(transactions, discrepancy, r + 1, r_max)

\* A faulty variant of the serial search: range(r_min, r_max) leaves out size r_max.
SerialSkipsLastSize(transactions, discrepancy, r_min, r_max) ==
    SerialFrom(transactions, discrepancy, r_min, r_max - 1)

\* find_matching_transactions_serial(transactions, discrepancy, r_min, r_max).
find_matching_transactions_serial(transactions, discrepancy, r_min, r_max) ==
    SerialFrom(transactions, discrepancy, r_min, r_max)

\* A faulty variant of Flatten: only the first task's list is kept.
FlattenKeepsFirst(lists) ==
    IF lists = <<>> THEN <<>> ELSE Head(lists)

RECURSIVE Flatten(_)
\* [item for sublist in valid_combinations for item in sublist].
Flatten(lists) ==
    IF lists = <<>> THEN <<>> ELSE Head(lists) \o Flatten(Tail(lists))

\* range(r_min, r_max + 1) as a sequence.
SizeRange(r_min, r_max) ==
    IF r_max < r_min THEN <<>> ELSE [i \in 1..(r_max - r_min + 1) |-> r_min + i - 1]

\* non_parallel_threshold = 10000 (src line 784).
non_parallel_threshold == 10000

\* find_matching_transactions_parallel as the caller sees it once every task
\* has been collected: the tasks' results in the order of range(r_min,
\* r_max + 1), the empty ones dropped, flattened.  The concurrent execution is
\* the Par* actions below.
find_matching_transactions_parallel(transactions, discrepancy, r_min, r_max) ==
    LET sizes == SizeRange(r_min, r_max)
    IN  Flatten([i \in 1..Len(sizes) |->
                    process_combinations(transactions, discrepancy, sizes[i])])

\* find_matching_transactions(transactions, discrepancy, r_min, r_max): None
\* for an empty pool (every caller only tests the result for truth, so None is
\* the empty sequence here), else the serial or the parallel search by the
\* number of combinations.  r_max = None is passed as Len(transactions).
find_matching_transactions(transactions, discrepancy, r_min, r_max) ==
    IF Len(transactions) < 1 THEN <<>>
    ELSE IF SumComb(Len(transactions), r_min, r_max) < non_parallel_threshold
         THEN find_matching_transactions_serial(transactions, discrepancy, r_min, r_max)
         ELSE find_matching_transactions_parallel(transactions, discrepancy, r_min, r_max)

(***************************************************************************)
(* State.                                                                  *)
(***************************************************************************)
VARIABLES
    \* --- the matcher run on its own (specification SpecMatcher) ---
    mpc,                \* where the matcher run stands
    mTransactions,      \* the pool: a sequence of (id, date, amount)
    mDiscrepancy,       \* the discrepancy, cents
    mRmin,              \* r_min
    mRmax,              \* r_max
    mResult,            \* what the search returned
    results,            \* parallel: r -> "none" | "queued" | "ready"
    taskValue,          \* parallel: r -> the task's return value
    getIdx,             \* parallel: position in results of the next get()
    finished,           \* parallel: the sizes in the order their tasks finished
    valid_combinations, \* parallel: the non-empty task results collected
    \* --- a function called on its own (specification SpecCalls) ---
    call                \* the last call: function, arguments, result

mvars ==
    <<mpc, mTransactions, mDiscrepancy, mRmin, mRmax, mResult, results,
      taskValue, getIdx, finished, valid_combinations, call>>

(***************************************************************************)
(* The reconciliation run: bounds and inputs.                              *)
(***************************************************************************)
\* Transactions in the transactions table (ids 1 .. NTx).
NTx == 3

\* Runs of reconcile_accounts over the same database.
MaxRuns == 2

TxIds == 1..NTx

Accounts == {"A1", "A2"}

\* Which account each transaction is on: all on A1, or the last one on A2
\* (SELECT DISTINCT account then yields A1 before A2).
AccountMaps ==
    {m \in [TxIds -> Accounts] : \A t \in TxIds : t < NTx => m[t] = "A1"}

\* Transaction dates (day numbers) and the dates of the newest balance row.
DateSet == {1, 4, 9}

BalanceDates == {10, 12}

\* The date of the newest balance rows of the first run.
FirstBalanceDates == {12}

\* Transaction amounts, mills.
LedgerAmounts == {-10, 10, 16}

\* The balance a checkpoint is seeded with (set_initial_balances), mills.
SeedBalances == {100}

\* What the online balance differs by from checkpoint + unreconciled
\* amounts, mills: the input that decides the discrepancy.
BalanceErrors == {-20, -10, 0, 4, 10}

\* What calculate_time_per_combination may measure, seconds per combination.
TpcChoices == {0, 4, 10}

\* time_per_combination = None (src line 56).
NoneTpc == -1

\* reasonable_time_threshold (src line 57), seconds.
reasonable_time_threshold == 10

\* The literal 10 of the tier-4 test (src line 609), seconds.
tier4_time_limit == 10

\* The literal 10 of "num_..._transactions < 10" (src lines 517, 579, 609).
few_transactions == 10

\* timedelta(days=5) (src lines 509, 569) and timedelta(days=3) (570, 571).
recent_days == 5

surrounding_days == 3

\* A NULL reconcile_date / a date not set.
NullDate == 0

VARIABLES
    \* --- columns of transactions that reconcile_accounts never writes ---
    txAccount, txDate, txAmount,
    \* --- the database: what is committed, and what the connection sees ---
    disk, conn,
    \* --- reconcile_accounts ---
    run,                        \* runs started so far
    pc,                         \* where the run stands
    accounts,                   \* SELECT DISTINCT account FROM transactions
    ai,                         \* position of the for loop in accounts
    balance_df,                 \* account -> newest balance row of the input
    file_date,                  \* the date of the newest rows of balance_df
    disk0,                      \* the database file as this run found it
    exit,                       \* how the last process ended, "" while one runs
    runLimit,                   \* how many runs the specification follows
    leftBy,                     \* account -> how its processing against this
                                \* balance file last ended
    time_per_combination,       \* the global of line 56
    reconciliation_summary,     \* account -> [has, result]; result "" = no key
    exported,                   \* account -> calls of export_reconciliation_details
    last_reconciled_balance, last_reconciled_date,
    current_balance, current_balance_date,
    all_unreconciled_transactions,
    discrepancy, resolved,
    pool,                       \* the transactions handed to the next search
    potential_matches,
    last_limit, new_limit,
    loop_searches,              \* history: (r_min, r_max) of the searches the
                                \* size-capped loop has run for the account
    ppm                         \* the frame of process_potential_matches

ledger == <<txAccount, txDate, txAmount>>

runv == <<run, accounts, file_date, runLimit, disk0, exit>>

fetched ==
    <<last_reconciled_balance, last_reconciled_date, current_balance,
      current_balance_date, all_unreconciled_transactions, discrepancy>>

limits == <<last_limit, new_limit, loop_searches>>

ovars ==
    <<ledger, disk, conn, runv, pc, ai, balance_df, leftBy,
      time_per_combination, reconciliation_summary, exported, fetched,
      resolved, pool, potential_matches, limits, ppm>>

vars == <<mvars, ovars>>

(***************************************************************************)
(* The database.                                                           *)
(***************************************************************************)
\* A row of transactions as far as it is mutable; a deleted row is absent.
NoTransaction == [present |-> FALSE, reconciled |-> FALSE, reconcile_date |-> NullDate]

\* No row of account_balances for the account.
NoCheckpoint ==
    [has |-> FALSE, last_reconciled_balance |-> 0, last_reconciled_date |-> NullDate]

\* (id, transaction_date, amount) of row t.
TxTuple(t) == <<t, txDate[t], txAmount[t]>>

RECURSIVE RowsOf(_)
\* The rows with the ids of S in rowid order, as (id, date, amount).
RowsOf(S) ==
    IF S = {} THEN <<>>
    ELSE LET t == CHOOSE x \in S : \A y \in S : x <= y
         IN  <<TxTuple(t)>> \o RowsOf(S \ {t})

\* The ids of a sequence of rows, as a set and as a list.
IdSet(rows) == {TransId(rows[i]) : i \in 1..Len(rows)}

IdList(rows) == [i \in 1..Len(rows) |-> TransId(rows[i])]

SeqToSet(q) == {q[i] : i \in 1..Len(q)}

\* Rows present in db on the account.
OnAccount(db, account) ==
    {t \in TxIds : db.transactions[t].present /\ txAccount[t] = account}

\* SELECT * FROM transactions WHERE account = ? AND reconciled = 0.
Unreconciled(db, account) ==
    {t \in OnAccount(db, account) : ~db.transactions[t].reconciled}

\* A faulty variant of MarkOthersReconciled: SET reconcile_date = ? only.
MarkOthersKeepsFlag(db, acct, date, exclude_ids) ==
    [db EXCEPT !.transactions =
        [t \in TxIds |->
            IF t \in Unreconciled(db, acct) /\ t \notin exclude_ids
            THEN [present |-> TRUE, reconciled |-> FALSE, reconcile_date |-> date]
            ELSE db.transactions[t]]]

\* UPDATE transactions SET reconciled = 1, reconcile_date = ? WHERE account = ?
\* AND reconciled = 0 [AND id NOT IN (exclude_ids)]  (lines 488, 863, 910).
MarkOthersReconciled(db, account, date, exclude_ids) ==
    [db EXCEPT !.transactions =
        [t \in TxIds |->
            IF t \in Unreconciled(db, account) /\ t \notin exclude_ids
            THEN [present |-> TRUE, reconciled |-> TRUE, reconcile_date |-> date]
            ELSE db.transactions[t]]]

\* UPDATE transactions SET reconciled = 1, reconcile_date = ? WHERE id IN (ids)
\* (line 904): whatever the row's account and reconciled flag.
MarkIdsReconciled(db, ids, date) ==
    [db EXCEPT !.transactions =
        [t \in TxIds |->
            IF t \in ids /\ db.transactions[t].present
            THEN [present |-> TRUE, reconciled |-> TRUE, reconcile_date |-> date]
            ELSE db.transactions[t]]]

\* DELETE FROM transactions WHERE id IN (ids)  (line 899).
DeleteIds(db, ids) ==
    [db EXCEPT !.transactions =
        [t \in TxIds |-> IF t \in ids THEN NoTransaction ELSE db.transactions[t]]]

\* A faulty variant of UpdateCheckpoint: SET last_reconciled_balance = ? only.
UpdateCheckpointKeepsDate(db, acct, balance, date) ==
    [db EXCEPT !.account_balances =
        [a \in Accounts |->
            IF a = acct /\ db.account_balances[a].has
            THEN [db.account_balances[a] EXCEPT !.last_reconciled_balance = balance]
            ELSE db.account_balances[a]]]

\* UPDATE account_balances SET last_reconciled_balance = ?,
\* last_reconciled_date = ? WHERE account = ?  (lines 490, 865, 913).
UpdateCheckpoint(db, account, balance, date) ==
    [db EXCEPT !.account_balances =
        [a \in Accounts |->
            IF a = account /\ db.account_balances[a].has
            THEN [has |-> TRUE, last_reconciled_balance |-> balance,
                  last_reconciled_date |-> date]
            ELSE db.account_balances[a]]]

RECURSIVE SumOf(_)
\* The sum of the amounts (mills) of the transactions with ids in S.
SumOf(S) ==
    IF S = {} THEN 0
    ELSE LET t == CHOOSE x \in S : TRUE IN txAmount[t] + SumOf(S \ {t})

\* The database set_initial_balances leaves behind for a ledger: every
\* transaction unreconciled, and for every account with transactions a
\* checkpoint dated the day before its earliest transaction (lines 386, 432).
SeededDb(acc, dates, seed) ==
    [transactions |->
        [t \in TxIds |-> [present |-> TRUE, reconciled |-> FALSE,
                          reconcile_date |-> NullDate]],
     account_balances |->
        [a \in Accounts |->
            IF \E t \in TxIds : acc[t] = a
            THEN [has |-> TRUE, last_reconciled_balance |-> seed,
                  last_reconciled_date |->
                      (CHOOSE d \in DateSet :
                          /\ \E t \in TxIds : acc[t] = a /\ dates[t] = d
                          /\ \A t \in TxIds : acc[t] = a => d <= dates[t]) - 1]
            ELSE NoCheckpoint]]

\* The same database without the account_balances rows of the accounts in
\* lost (reconcile_accounts run on a database those rows are not in).
WithoutCheckpoints(db, lost) ==
    [db EXCEPT !.account_balances =
        [a \in Accounts |-> IF a \in lost THEN NoCheckpoint ELSE @[a]]]

\* Which account_balances rows may be missing on a ledger: none; the first
\* account's; or, on the ledgers of equal amounts, the second account's.
Lost(acc, amounts) ==
    {{}, {"A1"}} \cup
    (IF (\E t \in TxIds : acc[t] = "A2") /\ (\A t \in TxIds : amounts[t] = amounts[1])
     THEN {{"A2"}} ELSE {})

(***************************************************************************)
(* The estimator (lines 730-745).                                          *)
(***************************************************************************)
\* r_max=None, the default of estimate_processing_time (line 730).
NoneRmax == -1

\* A faulty variant of estimate_processing_time: the sizes are counted from
\* 1 whatever r_min is.
EstimateFromOne(num_transactions, r_min, r_max, tpc) ==
    LET upto == IF r_max = NoneRmax THEN num_transactions ELSE r_max
    IN  <<SumComb(num_transactions, 1, upto) * tpc,
          SumComb(num_transactions, 1, upto)>>

\* estimate_processing_time(num_transactions, r_min, r_max) with
\* time_per_combination = tpc: (estimated_time, combinations_count).
\* Lines 733-734: r_max = None stands for num_transactions.
estimate_processing_time(num_transactions, r_min, r_max, tpc) ==
    LET upto == IF r_max = NoneRmax THEN num_transactions ELSE r_max
    IN  <<SumComb(num_transactions, r_min, upto) * tpc,
          SumComb(num_transactions, r_min, upto)>>

\* A faulty variant of Calibrates: `if not time_per_combination:`.
CalibratesWhenFalsy == time_per_combination \in {NoneTpc, 0}

\* Line 737: `if time_per_combination is None:`, the estimate runs
\* calculate_time_per_combination.
Calibrates == time_per_combination = NoneTpc

\* Lines 737-739: the value of time_per_combination once an estimate has been
\* asked for: measured if it was None, else kept.
Calibrated(tpc) ==
    IF Calibrates THEN tpc \in TpcChoices
    ELSE tpc = time_per_combination

\* A faulty variant of SearchWithoutAsking: `est[0] < threshold` alone, an
\* estimate of 0 seconds searched without asking whatever the pool.
SearchWithoutAskingZeroFast(est, num) == est[1] < reasonable_time_threshold

\* A faulty variant of SearchWithoutAsking: an estimate at the threshold is
\* searched without asking too.
SearchWithoutAskingAtThreshold(est, num) ==
    est[1] <= reasonable_time_threshold /\ (est[1] > 0 \/ num < few_transactions)

\* Lines 517 and 579: search without asking.
SearchWithoutAsking(est, num) ==
    est[1] < reasonable_time_threshold /\ (est[1] > 0 \/ num < few_transactions)

\* Line 609: search all unreconciled transactions without asking.
SearchAllWithoutAsking(est, num) ==
    est[1] < tier4_time_limit /\ (est[1] > 0 \/ num < few_transactions)

(***************************************************************************)
(* reconcile_accounts.                                                     *)
(***************************************************************************)
account == accounts[ai]

NoFrame ==
    [display_only |-> FALSE, caller |-> "", selected_combo |-> <<>>,
     delete_ids |-> <<>>, reconcile_ids |-> <<>>, exclude_ids |-> <<>>]

NoBalanceRow == [read |-> FALSE, balance |-> 0, date |-> NullDate]

NoSummary == [has |-> FALSE, result |-> ""]

\* The locals of one pass of the for loop, before anything is assigned.
LocalsCleared ==
    /\ last_reconciled_balance' = 0
    /\ last_reconciled_date' = NullDate
    /\ current_balance' = 0
    /\ current_balance_date' = NullDate
    /\ all_unreconciled_transactions' = <<>>
    /\ discrepancy' = 0
    /\ resolved' = FALSE
    /\ pool' = <<>>
    /\ potential_matches' = <<>>
    /\ last_limit' = 0
    /\ new_limit' = 0
    /\ loop_searches' = <<>>
    /\ ppm' = NoFrame

\* The orchestrator not running (the matcher specification).
OrchIdle ==
    /\ txAccount = [t \in TxIds |-> "A1"]
    /\ txDate = [t \in TxIds |-> NullDate]
    /\ txAmount = [t \in TxIds |-> 0]
    /\ disk = [transactions |-> [t \in TxIds |-> NoTransaction],
               account_balances |-> [a \in Accounts |-> NoCheckpoint]]
    /\ conn = disk
    /\ run = 0
    /\ pc = "off"
    /\ accounts = <<>>
    /\ ai = 0
    /\ balance_df = [a \in Accounts |-> NoBalanceRow]
    /\ file_date = NullDate
    /\ disk0 = disk
    /\ exit = ""
    /\ runLimit = 0
    /\ leftBy = [a \in Accounts |-> ""]
    /\ time_per_combination = NoneTpc
    /\ reconciliation_summary = [a \in Accounts |-> NoSummary]
    /\ exported = [a \in Accounts |-> 0]
    /\ last_reconciled_balance = 0
    /\ last_reconciled_date = NullDate
    /\ current_balance = 0
    /\ current_balance_date = NullDate
    /\ all_unreconciled_transactions = <<>>
    /\ discrepancy = 0
    /\ resolved = FALSE
    /\ pool = <<>>
    /\ potential_matches = <<>>
    /\ last_limit = 0
    /\ new_limit = 0
    /\ loop_searches = <<>>
    /\ ppm = NoFrame

\* main() about to call reconcile_accounts for the first time, on a ledger
\* with the database set_initial_balances has seeded for it; limit runs of
\* the program are followed.
OrchInit(accountMaps, dateMaps, amountMaps, limit) ==
    /\ txAccount \in accountMaps
    /\ txDate \in dateMaps
    /\ txAmount \in amountMaps
    /\ \E seed \in SeedBalances, lost \in Lost(txAccount, txAmount) :
           disk = WithoutCheckpoints(SeededDb(txAccount, txDate, seed), lost)
    /\ conn = disk
    /\ run = 0
    /\ pc = "main"
    /\ accounts = <<>>
    /\ ai = 0
    /\ balance_df = [a \in Accounts |-> NoBalanceRow]
    /\ file_date = NullDate
    /\ disk0 = disk
    /\ exit = ""
    /\ runLimit = limit
    /\ leftBy = [a \in Accounts |-> ""]
    /\ time_per_combination = NoneTpc
    /\ reconciliation_summary = [a \in Accounts |-> NoSummary]
    /\ exported = [a \in Accounts |-> 0]
    /\ last_reconciled_balance = 0
    /\ last_reconciled_date = NullDate
    /\ current_balance = 0
    /\ current_balance_date = NullDate
    /\ all_unreconciled_transactions = <<>>
    /\ discrepancy = 0
    /\ resolved = FALSE
    /\ pool = <<>>
    /\ potential_matches = <<>>
    /\ last_limit = 0
    /\ new_limit = 0
    /\ loop_searches = <<>>
    /\ ppm = NoFrame

RECURSIVE AccountList(_)
\* SELECT DISTINCT account FROM transactions, in the order of first rowid.
AccountList(S) ==
    IF S = {} THEN <<>>
    ELSE LET t == CHOOSE x \in S : \A y \in S : x <= y
         IN  <<txAccount[t]>> \o AccountList({u \in S : txAccount[u] # txAccount[t]})

\* Lines 445-452, reached from main(): a process starts, connects and lists
\* the accounts.  The balance file is the one of the previous run (same), or
\* a new one whose newest rows are dated date and are fixed when first read.
StartRun(same, date) ==
    /\ pc \in {"main", "ended"}
    /\ run < runLimit
    /\ IF same THEN run > 0 /\ date = file_date
               ELSE date \in (IF run = 0 THEN FirstBalanceDates ELSE BalanceDates)
    /\ run' = run + 1
    /\ file_date' = date
    /\ leftBy' = IF same THEN leftBy ELSE [a \in Accounts |-> ""]
    /\ disk0' = disk
    /\ exit' = ""
    /\ balance_df' = IF same THEN balance_df ELSE [a \in Accounts |-> NoBalanceRow]
    /\ accounts' = AccountList({t \in TxIds : disk.transactions[t].present})
    /\ ai' = 1
    /\ pc' = "account"
    /\ UNCHANGED <<mvars, ledger, disk, conn, runLimit, time_per_combination,
                   reconciliation_summary, exported, fetched, resolved, pool,
                   potential_matches, limits, ppm>>

\* A faulty variant of Rollback: what was executed is on file without a
\* commit.
RollbackCommits(committed, uncommitted) == uncommitted

\* What the database file holds once a connection is gone (conn.close(), or
\* the process dying) while statements are uncommitted: sqlite3 opened a
\* transaction before the first UPDATE/DELETE, and it is rolled back.
Rollback(committed, uncommitted) == committed

\* The process is gone, how says in which way: its connection, its globals
\* and its locals with it.  The database file and the balance file stay.
ProcessEnded(how) ==
    /\ disk' = Rollback(disk, conn)
    /\ conn' = disk'
    /\ exit' = how
    /\ accounts' = <<>>
    /\ ai' = 0
    /\ time_per_combination' = NoneTpc
    /\ reconciliation_summary' = [a \in Accounts |-> NoSummary]
    /\ exported' = [a \in Accounts |-> 0]
    /\ LocalsCleared
    /\ pc' = "ended"

\* Lines 466-468: the newest balance row of the account in balance_df.  A
\* row of a new balance file is fixed when it is first read.
BalanceRows ==
    IF balance_df[account].read THEN {balance_df[account]}
    ELSE [read : {TRUE}, date : {file_date},
          balance : {conn.account_balances[account].last_reconciled_balance
                     + SumOf(Unreconciled(conn, account)) + e : e \in BalanceErrors}]

\* A faulty variant of FetchNoCheckpoint: a row of account_balances with
\* balance 0 is inserted and committed for the account before the exit.
FetchFabricatesCheckpoint ==
    /\ pc = "account"
    /\ ai <= Len(accounts)
    /\ ~conn.account_balances[account].has
    /\ disk' = [disk EXCEPT !.account_balances[account] =
                    [has |-> TRUE, last_reconciled_balance |-> 0,
                     last_reconciled_date |-> NullDate]]
    /\ conn' = disk'
    /\ exit' = "exit 1"
    /\ accounts' = <<>>
    /\ ai' = 0
    /\ time_per_combination' = NoneTpc
    /\ reconciliation_summary' = [a \in Accounts |-> NoSummary]
    /\ exported' = [a \in Accounts |-> 0]
    /\ LocalsCleared
    /\ pc' = "ended"
    /\ UNCHANGED <<mvars, ledger, run, file_date, runLimit, disk0,
                   balance_df, leftBy>>

\* Lines 455-463: the account has no row in account_balances: sys.exit(1).
FetchNoCheckpoint ==
    /\ pc = "account"
    /\ ai <= Len(accounts)
    /\ ~conn.account_balances[account].has
    /\ ProcessEnded("exit 1")
    /\ UNCHANGED <<mvars, ledger, run, file_date, runLimit, disk0,
                   balance_df, leftBy>>

\* Lines 454-499: checkpoint, balance row, unreconciled transactions and the
\* discrepancy of the next account.
FetchAccount ==
    /\ pc = "account"
    /\ ai <= Len(accounts)
    /\ conn.account_balances[account].has
    /\ \E row \in BalanceRows :
        /\ balance_df' = [balance_df EXCEPT ![account] = row]
        /\ current_balance' = row.balance
        /\ current_balance_date' = row.date
        /\ LET lrb == conn.account_balances[account].last_reconciled_balance
               online_balance_change == row.balance - lrb
               transaction_balance_change == SumOf(Unreconciled(conn, account))
               d == Quantize(online_balance_change - transaction_balance_change)
           IN  /\ last_reconciled_balance' = lrb
               /\ discrepancy' = d
               /\ pc' = IF d = 0 THEN "zero_mark" ELSE "tier2_estimate"
    /\ last_reconciled_date' = conn.account_balances[account].last_reconciled_date
    /\ all_unreconciled_transactions' = RowsOf(Unreconciled(conn, account))
    /\ reconciliation_summary' =
          [reconciliation_summary EXCEPT ![account] = [has |-> TRUE, result |-> ""]]
    /\ resolved' = FALSE
    /\ UNCHANGED <<mvars, ledger, disk, conn, runv, ai, leftBy, time_per_combination,
                   exported, pool, potential_matches, limits, ppm>>

\* Line 488: the discrepancy is 0.00: every unreconciled transaction of the
\* account is marked reconciled.
ZeroMark ==
    /\ pc = "zero_mark"
    /\ conn' = MarkOthersReconciled(conn, account, current_balance_date, {})
    /\ pc' = "zero_ckpt"
    /\ UNCHANGED <<mvars, ledger, disk, runv, ai, balance_df, leftBy,
                   time_per_combination, reconciliation_summary, exported,
                   fetched, resolved, pool, potential_matches, limits, ppm>>

\* Line 490: the checkpoint becomes (current_balance, current_balance_date).
ZeroCheckpoint ==
    /\ pc = "zero_ckpt"
    /\ conn' = UpdateCheckpoint(conn, account, current_balance, current_balance_date)
    /\ pc' = "zero_commit"
    /\ UNCHANGED <<mvars, ledger, disk, runv, ai, balance_df, leftBy,
                   time_per_combination, reconciliation_summary, exported,
                   fetched, resolved, pool, potential_matches, limits, ppm>>

\* Lines 492-495: commit, the summary's result, continue.
ZeroCommit ==
    /\ pc = "zero_commit"
    /\ disk' = conn
    /\ reconciliation_summary' =
          [reconciliation_summary EXCEPT
              ![account].result = "Fully reconciled with no discrepancies."]
    /\ pc' = "next"
    /\ UNCHANGED <<mvars, ledger, conn, runv, ai, balance_df, leftBy,
                   time_per_combination, exported, fetched, resolved, pool,
                   potential_matches, limits, ppm>>

\* How the processing of an account ended, from its summary entry: by the
\* zero-discrepancy path, by an applied combination, or neither.
EndedBy(entry) ==
    IF entry.result = "Fully reconciled with no discrepancies." THEN "zero"
    ELSE IF resolved THEN "resolved"
    ELSE ""

\* The for loop goes on to the next account.
NextAccount ==
    /\ pc = "next"
    /\ leftBy' = [leftBy EXCEPT ![account] = EndedBy(reconciliation_summary[account])]
    /\ ai' = ai + 1
    /\ pc' = "account"
    /\ LocalsCleared
    /\ UNCHANGED <<mvars, ledger, disk, conn, runv, balance_df, time_per_combination,
                   reconciliation_summary, exported>>

\* WHERE account = ? AND transaction_date >= ?  (lines 506-509): the rows of
\* the account dated within recent_days of the balance date.
Last5DaysRows(db, acct, balance_date) ==
    {t \in OnAccount(db, acct) : txDate[t] >= balance_date - recent_days}

\* WHERE account = ? AND (transaction_date >= ? OR transaction_date BETWEEN ?
\* AND ?) AND reconciled = 0  (lines 564-571).
RecentAndSurroundingRows(db, acct, balance_date, reconciled_date) ==
    {t \in Unreconciled(db, acct) :
        \/ txDate[t] >= balance_date - recent_days
        \/ /\ txDate[t] >= reconciled_date - surrounding_days
           /\ txDate[t] <= reconciled_date + surrounding_days}

\* Lines 504-527 up to the prompt: the 5-day pool, its estimate, and whether
\* it is searched without asking.
Tier2Estimate ==
    /\ pc = "tier2_estimate"
    /\ pool' = RowsOf(Last5DaysRows(conn, account, current_balance_date))
    /\ \E tpc \in TpcChoices \cup {time_per_combination} :
        /\ Calibrated(tpc)
        /\ time_per_combination' = tpc
        /\ LET n == Len(pool')
               est == estimate_processing_time(n, 1, NoneRmax, tpc)
           IN  pc' = IF SearchWithoutAsking(est, n) THEN "tier2_search"
                     ELSE "tier2_ask"
    /\ UNCHANGED <<mvars, ledger, disk, conn, runv, ai, balance_df, leftBy,
                   reconciliation_summary, exported, fetched, resolved,
                   potential_matches, limits, ppm>>

\* Lines 521-526: the answer to "Do you want to proceed ...".
Tier2Ask(yes) ==
    /\ pc = "tier2_ask"
    /\ pc' = IF yes THEN "tier2_search" ELSE "exact"
    /\ UNCHANGED <<mvars, ledger, disk, conn, runv, ai, balance_df, leftBy,
                   time_per_combination, reconciliation_summary, exported,
                   fetched, resolved, pool, potential_matches, limits, ppm>>

\* The frame of process_potential_matches(..., display_only=True), lines
\* 858-862: the first combination, all of it excluded.
AutoFrame(caller, matches) ==
    [display_only |-> TRUE, caller |-> caller, selected_combo |-> matches[1],
     delete_ids |-> <<>>, reconcile_ids |-> <<>>,
     exclude_ids |-> IdList(matches[1])]

\* The frame of an interactive process_potential_matches call.
AskFrame(caller) == [NoFrame EXCEPT !.caller = caller]

\* A faulty variant of Tier2Search: the first combination found is applied
\* without asking, however many were found.
Tier2SearchAppliesFirst ==
    /\ pc = "tier2_search"
    /\ LET found == find_matching_transactions(pool, discrepancy, 1, Len(pool))
       IN  /\ potential_matches' = found
           /\ IF found = <<>>
              THEN pc' = "exact" /\ ppm' = ppm
              ELSE pc' = "ppm_auto_mark" /\ ppm' = AutoFrame("tier2_single", found)
    /\ UNCHANGED <<mvars, ledger, disk, conn, runv, ai, balance_df, leftBy,
                   time_per_combination, reconciliation_summary, exported,
                   fetched, resolved, pool, limits>>

\* Lines 529-548: the search of the 5-day pool.  One combination is applied
\* without asking; several are searched for again and offered.
Tier2Search ==
    /\ pc = "tier2_search"
    /\ LET found == find_matching_transactions(pool, discrepancy, 1, Len(pool))
       IN  /\ potential_matches' = found
           /\ IF found = <<>>
              THEN pc' = "exact" /\ ppm' = ppm
              ELSE IF Len(found) = 1
              THEN pc' = "ppm_auto_mark" /\ ppm' = AutoFrame("tier2_single", found)
              ELSE pc' = "ppm_select" /\ ppm' = AskFrame("tier2_multi")
    /\ UNCHANGED <<mvars, ledger, disk, conn, runv, ai, balance_df, leftBy,
                   time_per_combination, reconciliation_summary, exported,
                   fetched, resolved, pool, limits>>

RECURSIVE SelectExact(_, _)
\* [trans for trans in rows if Decimal(trans[6]).quantize(cent) == -d].
SelectExact(rows, d) ==
    IF rows = <<>> THEN <<>>
    ELSE (IF Quantize(TransAmount(Head(rows))) = -d THEN <<Head(rows)>> ELSE <<>>)
            \o SelectExact(Tail(rows), d)

\* Line 556: what the exact-match tier hands to process_potential_matches:
\* [exact_matches], one combination holding every exact match.
ExactCandidates(exact_matches) == <<exact_matches>>

\* Lines 550-556: the single-transaction exact matches.
ExactTier ==
    /\ pc = "exact"
    /\ LET exact_matches == SelectExact(all_unreconciled_transactions, discrepancy)
       IN  IF exact_matches # <<>>
           THEN /\ potential_matches' = ExactCandidates(exact_matches)
                /\ ppm' = AskFrame("exact")
                /\ pc' = "ppm_select"
           ELSE /\ pc' = "tier3_estimate"
                /\ UNCHANGED <<potential_matches, ppm>>
    /\ UNCHANGED <<mvars, ledger, disk, conn, runv, ai, balance_df, leftBy,
                   time_per_combination, reconciliation_summary, exported,
                   fetched, resolved, pool, limits>>

\* Lines 562-588 up to the prompt: the pool of the last 5 days and around the
\* last reconciled date, and its estimate.
Tier3Estimate ==
    /\ pc = "tier3_estimate"
    /\ pool' = RowsOf(RecentAndSurroundingRows(conn, account, current_balance_date,
                                               last_reconciled_date))
    /\ \E tpc \in TpcChoices \cup {time_per_combination} :
        /\ Calibrated(tpc)
        /\ time_per_combination' = tpc
        /\ LET n == Len(pool')
               est == estimate_processing_time(n, 1, NoneRmax, tpc)
           IN  pc' = IF SearchWithoutAsking(est, n) THEN "tier3_search"
                     ELSE "tier3_ask"
    /\ UNCHANGED <<mvars, ledger, disk, conn, runv, ai, balance_df, leftBy,
                   reconciliation_summary, exported, fetched, resolved,
                   potential_matches, limits, ppm>>

\* Lines 583-588: the answer to "Do you want to proceed ...".
Tier3Ask(yes) ==
    /\ pc = "tier3_ask"
    /\ pc' = IF yes THEN "tier3_search" ELSE "tier4"
    /\ UNCHANGED <<mvars, ledger, disk, conn, runv, ai, balance_df, leftBy,
                   time_per_combination, reconciliation_summary, exported,
                   fetched, resolved, pool, potential_matches, limits, ppm>>

\* Lines 591-595: the search of that pool.
Tier3Search ==
    /\ pc = "tier3_search"
    /\ LET found == find_matching_transactions(pool, discrepancy, 1, Len(pool))
       IN  /\ potential_matches' = found
           /\ IF found = <<>>
              THEN pc' = "tier4" /\ ppm' = ppm
              ELSE pc' = "ppm_select" /\ ppm' = AskFrame("tier3")
    /\ UNCHANGED <<mvars, ledger, disk, conn, runv, ai, balance_df, leftBy,
                   time_per_combination, reconciliation_summary, exported,
                   fetched, resolved, pool, limits>>

\* Lines 601-609: the estimate for all unreconciled transactions decides
\* between searching them at once and the menu.
Tier4Estimate ==
    /\ pc = "tier4"
    /\ IF ~resolved
       THEN \E tpc \in TpcChoices \cup {time_per_combination} :
              /\ Calibrated(tpc)
              /\ time_per_combination' = tpc
              /\ LET n == Len(all_unreconciled_transactions)
                     est_all == estimate_processing_time(n, 1, NoneRmax, tpc)
                 IN  pc' = IF SearchAllWithoutAsking(est_all, n) THEN "tier4_search"
                           ELSE "tier4_menu"
       ELSE pc' = "backstop" /\ UNCHANGED time_per_combination
    /\ pool' = all_unreconciled_transactions
    /\ UNCHANGED <<mvars, ledger, disk, conn, runv, ai, balance_df, leftBy,
                   reconciliation_summary, exported, fetched, resolved,
                   potential_matches, limits, ppm>>

\* Lines 610-611 and 632-633: the search of all unreconciled transactions,
\* run at once (caller "tier4") or chosen from the menu ("tier4_all").
Tier4Search ==
    /\ pc \in {"tier4_search", "tier4_all_search"}
    /\ LET found == find_matching_transactions(pool, discrepancy, 1, Len(pool))
       IN  /\ potential_matches' = found
           /\ IF found = <<>>
              THEN pc' = "backstop" /\ ppm' = ppm
              ELSE /\ pc' = "ppm_select"
                   /\ ppm' = AskFrame(IF pc = "tier4_search" THEN "tier4"
                                      ELSE "tier4_all")
    /\ UNCHANGED <<mvars, ledger, disk, conn, runv, ai, balance_df, leftBy,
                   time_per_combination, reconciliation_summary, exported,
                   fetched, resolved, pool, limits>>

\* export_reconciliation_details(account, ...) called once more.
ExportedOnce == [exported EXCEPT ![account] = @ + 1]

\* Lines 621-642 and 708-712: the answer to the menu.  'a' searches all
\* combinations, 'l'/'limit' enters the size-capped loop, anything else skips
\* the account: NOT reconciled, export, continue.
Tier4Menu(input) ==
    /\ pc = "tier4_menu"
    /\ CASE input = "a" ->
              /\ pc' = "tier4_all_search"
              /\ UNCHANGED <<limits, reconciliation_summary, exported>>
         [] input = "l" ->
              /\ last_limit' = 1
              /\ new_limit' = 1
              /\ loop_searches' = <<>>
              /\ pc' = "limit_head"
              /\ UNCHANGED <<reconciliation_summary, exported>>
         [] OTHER ->
              /\ reconciliation_summary' =
                    [reconciliation_summary EXCEPT ![account].result = "NOT reconciled."]
              /\ exported' = ExportedOnce
              /\ pc' = "next"
              /\ UNCHANGED limits
    /\ UNCHANGED <<mvars, ledger, disk, conn, runv, ai, balance_df, leftBy,
                   time_per_combination, fetched, resolved, pool,
                   potential_matches, ppm>>

\* A faulty variant of LimitHead: `while last_limit < num_transactions`, the
\* menu shown again after a resolution.
LimitHeadIgnoresResolved ==
    /\ pc = "limit_head"
    /\ pc' = IF last_limit >= Len(all_unreconciled_transactions)
             THEN (IF resolved THEN "limit_else" ELSE "limit_exit")
             ELSE "limit_menu"
    /\ UNCHANGED <<mvars, ledger, disk, conn, runv, ai, balance_df, leftBy,
                   time_per_combination, reconciliation_summary, exported,
                   fetched, resolved, pool, potential_matches, limits, ppm>>

\* Lines 644-668: the head of the size-capped loop: every size searched
\* already ends it, else the limits are estimated and the menu is shown.
LimitHead ==
    /\ pc = "limit_head"
    /\ pc' = IF resolved THEN "limit_else"
             ELSE IF last_limit >= Len(all_unreconciled_transactions)
             THEN "limit_exit"
             ELSE "limit_menu"
    /\ UNCHANGED <<mvars, ledger, disk, conn, runv, ai, balance_df, leftBy,
                   time_per_combination, reconciliation_summary, exported,
                   fetched, resolved, pool, potential_matches, limits, ppm>>

\* The answers to the loop's menu: 'a'/'all', a number (isdigit), or
\* anything else.  An answer is its kind and, for a number, its value.
LimitInputs ==
    {<<"a", 0>>, <<"s", 0>>} \cup {<<"n", k>> : k \in 0..(NTx + 1)}

\* A faulty variant of LimitMenu: `if user_input < last_limit:`, the cap
\* already searched is accepted again.
LimitMenuAcceptsSameCap(input) ==
    /\ pc = "limit_menu"
    /\ LET num_transactions == Len(all_unreconciled_transactions)
           user_input == input[2]
       IN  CASE input[1] = "a" ->
                  /\ new_limit' = num_transactions
                  /\ last_limit' = num_transactions
                  /\ UNCHANGED loop_searches
                  /\ pc' = "limit_head"
             [] input[1] = "s" ->
                  /\ pc' = "limit_exit"
                  /\ UNCHANGED limits
             [] OTHER ->
                  IF user_input < last_limit
                  THEN pc' = "limit_head" /\ UNCHANGED limits
                  ELSE /\ new_limit' = IF user_input < num_transactions
                                       THEN user_input ELSE num_transactions
                       /\ last_limit' = last_limit
                       /\ UNCHANGED loop_searches
                       /\ pc' = "limit_search"
    /\ UNCHANGED <<mvars, ledger, disk, conn, runv, ai, balance_df, leftBy,
                   time_per_combination, reconciliation_summary, exported,
                   fetched, resolved, pool, potential_matches, ppm>>

\* Lines 670-699: 'a'/'all' sets new_limit to num_transactions and runs no
\* search; a number above last_limit (capped at num_transactions) is searched
\* for; a number not above it asks again; anything else leaves the loop.
LimitMenu(input) ==
    /\ pc = "limit_menu"
    /\ LET num_transactions == Len(all_unreconciled_transactions)
           user_input == input[2]
       IN  CASE input[1] = "a" ->
                  /\ new_limit' = num_transactions
                  /\ last_limit' = num_transactions
                  /\ UNCHANGED loop_searches
                  /\ pc' = "limit_head"
             [] input[1] = "s" ->
                  /\ pc' = "limit_exit"
                  /\ UNCHANGED limits
             [] OTHER ->
                  IF user_input <= last_limit
                  THEN pc' = "limit_head" /\ UNCHANGED limits
                  ELSE /\ new_limit' = IF user_input < num_transactions
                                       THEN user_input ELSE num_transactions
                       /\ last_limit' = last_limit
                       /\ UNCHANGED loop_searches
                       /\ pc' = "limit_search"
    /\ UNCHANGED <<mvars, ledger, disk, conn, runv, ai, balance_df, leftBy,
                   time_per_combination, reconciliation_summary, exported,
                   fetched, resolved, pool, potential_matches, ppm>>

\* Lines 683-693 and 699: the search for sizes last_limit .. new_limit; with
\* no match the loop goes on from new_limit.
LimitSearch ==
    /\ pc = "limit_search"
    /\ LET found == find_matching_transactions(pool, discrepancy, last_limit, new_limit)
       IN  /\ potential_matches' = found
           /\ loop_searches' = Append(loop_searches, <<last_limit, new_limit>>)
           /\ new_limit' = new_limit
           /\ IF found = <<>>
              THEN /\ last_limit' = new_limit
                   /\ pc' = "limit_head"
                   /\ ppm' = ppm
              ELSE /\ pc' = "ppm_select"
                   /\ ppm' = AskFrame("limit")
                   /\ last_limit' = last_limit
    /\ UNCHANGED <<mvars, ledger, disk, conn, runv, ai, balance_df, leftBy,
                   time_per_combination, reconciliation_summary, exported,
                   fetched, resolved, pool>>

\* Lines 701-703: the loop ended because resolved is true.
LimitElse ==
    /\ pc = "limit_else"
    /\ reconciliation_summary' =
          [reconciliation_summary EXCEPT ![account].result =
              "Reconciled with exclusions/deletions after searching limited combinations of transactions."]
    /\ pc' = "next"
    /\ UNCHANGED <<mvars, ledger, disk, conn, runv, ai, balance_df, leftBy,
                   time_per_combination, exported, fetched, resolved, pool,
                   potential_matches, limits, ppm>>

\* Lines 705-706: the loop was left by break: NOT reconciled, export; control
\* then reaches the backstop of line 715.
LimitExit ==
    /\ pc = "limit_exit"
    /\ reconciliation_summary' =
          [reconciliation_summary EXCEPT ![account].result =
              "NOT reconciled after iteratively searching combinations of transactions."]
    /\ exported' = ExportedOnce
    /\ pc' = "backstop"
    /\ UNCHANGED <<mvars, ledger, disk, conn, runv, ai, balance_df, leftBy,
                   time_per_combination, fetched, resolved, pool,
                   potential_matches, limits, ppm>>

\* Lines 714-718: the backstop.
Backstop ==
    /\ pc = "backstop"
    /\ IF ~resolved
       THEN /\ reconciliation_summary' =
                  [reconciliation_summary EXCEPT ![account].result = "NOT reconciled."]
            /\ exported' = ExportedOnce
       ELSE UNCHANGED <<reconciliation_summary, exported>>
    /\ pc' = "next"
    /\ UNCHANGED <<mvars, ledger, disk, conn, runv, ai, balance_df, leftBy,
                   time_per_combination, fetched, resolved, pool,
                   potential_matches, limits, ppm>>

(***************************************************************************)
(* process_potential_matches (lines 829-920).                              *)
(***************************************************************************)
\* What the user may type at "Select the combination number ...": -1 stands
\* for 's' and for anything int() rejects (line 875 turns it into -1).
SelectInputs == -1..(Len(potential_matches) + 1)

\* Lines 871-883 and 918-920: the selection.  -1 and a number outside
\* 1..len(potential_matches) return False before anything is written.
\* A faulty variant of PPMSelect: the checkpoint is moved to the current
\* balance before the answer is looked at.
PPMSelectMovesCheckpointFirst(selected_combo_index) ==
    /\ pc = "ppm_select"
    /\ conn' = UpdateCheckpoint(conn, account,
                                CentsToMills(Quantize(current_balance)),
                                current_balance_date)
    /\ IF 1 <= selected_combo_index /\ selected_combo_index <= Len(potential_matches)
       THEN /\ ppm' = [ppm EXCEPT
                          !.selected_combo = potential_matches[selected_combo_index]]
            /\ pc' = "ppm_actions"
            /\ UNCHANGED resolved
       ELSE /\ resolved' = FALSE
            /\ pc' = "ppm_return"
            /\ UNCHANGED ppm
    /\ UNCHANGED <<mvars, ledger, disk, runv, ai, balance_df, leftBy,
                   time_per_combination, reconciliation_summary, exported,
                   fetched, pool, potential_matches, limits>>

PPMSelect(selected_combo_index) ==
    /\ pc = "ppm_select"
    /\ IF 1 <= selected_combo_index /\ selected_combo_index <= Len(potential_matches)
       THEN /\ ppm' = [ppm EXCEPT
                          !.selected_combo = potential_matches[selected_combo_index]]
            /\ pc' = "ppm_actions"
            /\ UNCHANGED resolved
       ELSE /\ resolved' = FALSE
            /\ pc' = "ppm_return"
            /\ UNCHANGED ppm
    /\ UNCHANGED <<mvars, ledger, disk, conn, runv, ai, balance_df, leftBy,
                   time_per_combination, reconciliation_summary, exported,
                   fetched, pool, potential_matches, limits>>

\* The answers to "(e)xclude ..., (d)elete ..., or mark previously
\* (r)econciled?": d, r, and e for anything else.
Dispositions == {"e", "d", "r"}

RECURSIVE IdsWith(_, _, _)
\* The ids of combo, in order, whose answer in action is which.
IdsWith(combo, action, which) ==
    IF combo = <<>> THEN <<>>
    ELSE (IF Head(action) = which THEN <<TransId(Head(combo))>> ELSE <<>>)
            \o IdsWith(Tail(combo), Tail(action), which)

\* Lines 885-895: one answer per transaction of the selected combination.
PPMActions(action) ==
    /\ pc = "ppm_actions"
    /\ ppm' = [ppm EXCEPT
                  !.delete_ids = IdsWith(ppm.selected_combo, action, "d"),
                  !.reconcile_ids = IdsWith(ppm.selected_combo, action, "r"),
                  !.exclude_ids = IdsWith(ppm.selected_combo, action, "e")]
    /\ pc' = "ppm_delete"
    /\ UNCHANGED <<mvars, ledger, disk, conn, runv, ai, balance_df, leftBy,
                   time_per_combination, reconciliation_summary, exported,
                   fetched, resolved, pool, potential_matches, limits>>

\* Lines 898-900.
PPMDelete ==
    /\ pc = "ppm_delete"
    /\ conn' = IF ppm.delete_ids # <<>>
               THEN DeleteIds(conn, SeqToSet(ppm.delete_ids)) ELSE conn
    /\ pc' = "ppm_reconcile"
    /\ UNCHANGED <<mvars, ledger, disk, runv, ai, balance_df, leftBy,
                   time_per_combination, reconciliation_summary, exported,
                   fetched, resolved, pool, potential_matches, limits, ppm>>

\* Lines 903-906.
PPMReconcile ==
    /\ pc = "ppm_reconcile"
    /\ conn' = IF ppm.reconcile_ids # <<>>
               THEN MarkIdsReconciled(conn, SeqToSet(ppm.reconcile_ids),
                                      current_balance_date)
               ELSE conn
    /\ pc' = "ppm_exclude"
    /\ UNCHANGED <<mvars, ledger, disk, runv, ai, balance_df, leftBy,
                   time_per_combination, reconciliation_summary, exported,
                   fetched, resolved, pool, potential_matches, limits, ppm>>

\* Lines 909-911: if exclude_ids: every other unreconciled transaction of the
\* account is marked reconciled.
ReconcileTheRest(db, acct, date, exclude_ids) ==
    IF exclude_ids # <<>>
    THEN MarkOthersReconciled(db, acct, date, SeqToSet(exclude_ids))
    ELSE db

PPMExclude ==
    /\ pc = "ppm_exclude"
    /\ conn' = ReconcileTheRest(conn, account, current_balance_date, ppm.exclude_ids)
    /\ pc' = "ppm_ckpt"
    /\ UNCHANGED <<mvars, ledger, disk, runv, ai, balance_df, leftBy,
                   time_per_combination, reconciliation_summary, exported,
                   fetched, resolved, pool, potential_matches, limits, ppm>>

\* A faulty variant of CheckpointBalance: the sub-cent part is cut off.
CheckpointBalanceTruncated(balance) ==
    CentsToMills(IF balance >= 0 THEN balance \div MillsPerCent
                 ELSE -((-balance) \div MillsPerCent))

\* The balance process_potential_matches writes to the checkpoint:
\* Decimal(current_balance).quantize(cent), back on the mill scale.
CheckpointBalance(balance) == CentsToMills(Quantize(balance))

\* Lines 913-917: the checkpoint, return True.
PPMCheckpoint ==
    /\ pc = "ppm_ckpt"
    /\ conn' = UpdateCheckpoint(conn, account, CheckpointBalance(current_balance),
                                current_balance_date)
    /\ resolved' = TRUE
    /\ pc' = "ppm_return"
    /\ UNCHANGED <<mvars, ledger, disk, runv, ai, balance_df, leftBy,
                   time_per_combination, reconciliation_summary, exported,
                   fetched, pool, potential_matches, limits, ppm>>

\* Line 863 (display_only): every unreconciled transaction of the account
\* outside the combination is marked reconciled.
PPMAutoMark ==
    /\ pc = "ppm_auto_mark"
    /\ conn' = MarkOthersReconciled(conn, account, current_balance_date,
                                    SeqToSet(ppm.exclude_ids))
    /\ pc' = "ppm_auto_ckpt"
    /\ UNCHANGED <<mvars, ledger, disk, runv, ai, balance_df, leftBy,
                   time_per_combination, reconciliation_summary, exported,
                   fetched, resolved, pool, potential_matches, limits, ppm>>

\* Lines 865-868 (display_only): the checkpoint, return True.
PPMAutoCheckpoint ==
    /\ pc = "ppm_auto_ckpt"
    /\ conn' = UpdateCheckpoint(conn, account, CheckpointBalance(current_balance),
                                current_balance_date)
    /\ resolved' = TRUE
    /\ pc' = "ppm_return"
    /\ UNCHANGED <<mvars, ledger, disk, runv, ai, balance_df, leftBy,
                   time_per_combination, reconciliation_summary, exported,
                   fetched, pool, potential_matches, limits, ppm>>

\* The summary's result after a resolution, by call site (lines 537, 547,
\* 559, 598, 616, 637, 688).
ResolvedResult(caller) ==
    CASE caller = "tier2_single" -> "Reconciled with transactions pending."
      [] caller = "tier2_multi" ->
            "Reconciled with exclusions/deletions after simple searching."
      [] caller = "exact" -> "Reconciled directly with exact matches."
      [] caller = "tier3" ->
            "Reconciled with exclusions/deletions after simple searching."
      [] caller = "tier4" ->
            "Reconciled with exclusions/deletions after searching all transactions."
      [] caller = "tier4_all" ->
            "Reconciled with exclusions/deletions after extensively searching all transactions."
      [] OTHER ->
            "Reconciled with exclusions/deletions after searching limited combinations of transactions."

\* Where control goes when process_potential_matches returned False, by call
\* site: line 548 continues with the next account, lines 560, 599, 617, 638
\* fall through to the next tier, line 691 goes round the loop.
AfterRejected(caller) ==
    CASE caller = "tier2_single" -> "exact"
      [] caller = "tier2_multi" -> "next"
      [] caller = "exact" -> "tier3_estimate"
      [] caller = "tier3" -> "tier4"
      [] caller = "tier4" -> "backstop"
      [] caller = "tier4_all" -> "backstop"
      [] OTHER -> "limit_head"

\* The call sites' "resolved = process_potential_matches(...)" and what
\* follows: if resolved, conn.commit(), the summary's result and continue
\* (in the size-capped loop the continue is the while loop's); else the call
\* site's way on (in the loop, line 699 first: last_limit = new_limit).
AfterProcess ==
    /\ pc = "ppm_return"
    /\ IF resolved
       THEN /\ disk' = conn
            /\ reconciliation_summary' =
                  [reconciliation_summary EXCEPT
                      ![account].result = ResolvedResult(ppm.caller)]
            /\ pc' = IF ppm.caller = "limit" THEN "limit_head" ELSE "next"
            /\ UNCHANGED limits
       ELSE /\ pc' = AfterRejected(ppm.caller)
            /\ last_limit' = IF ppm.caller = "limit" THEN new_limit ELSE last_limit
            /\ UNCHANGED <<disk, reconciliation_summary, new_limit, loop_searches>>
    /\ UNCHANGED <<mvars, ledger, conn, runv, ai, balance_df, leftBy,
                   time_per_combination, exported, fetched, resolved, pool,
                   potential_matches, ppm>>

\* Lines 720-728: the summary is printed and the connection closed;
\* details['result'] raises KeyError for an entry that has no result.  Either
\* way the process ends.
SummaryFails ==
    \E a \in Accounts : /\ reconciliation_summary[a].has
                        /\ reconciliation_summary[a].result = ""

PrintSummary ==
    /\ pc = "account"
    /\ ai > Len(accounts)
    /\ ProcessEnded(IF SummaryFails THEN "KeyError" ELSE "exit 0")
    /\ UNCHANGED <<mvars, ledger, run, file_date, runLimit, disk0,
                   balance_df, leftBy>>

\* Where a resolution is being applied: after its first statement and up to
\* the commit.
Applying ==
    {"zero_ckpt", "zero_commit", "ppm_reconcile", "ppm_exclude", "ppm_ckpt",
     "ppm_auto_ckpt", "ppm_return"}

\* The process dies while a resolution is being applied (an exception, a
\* kill): the connection goes without a commit and SQLite rolls back.
Crash ==
    /\ pc \in Applying
    /\ ProcessEnded(IF conn # disk THEN "killed, rolled back" ELSE "killed")
    /\ UNCHANGED <<mvars, ledger, run, file_date, runLimit, disk0,
                   balance_df, leftBy>>

OrchNext ==
    \/ \E same \in BOOLEAN, date \in BalanceDates \cup FirstBalanceDates :
          StartRun(same, date)
    \/ FetchNoCheckpoint
    \/ FetchAccount
    \/ ZeroMark
    \/ ZeroCheckpoint
    \/ ZeroCommit
    \/ NextAccount
    \/ Tier2Estimate
    \/ \E yes \in BOOLEAN : Tier2Ask(yes)
    \/ Tier2Search
    \/ ExactTier
    \/ Tier3Estimate
    \/ \E yes \in BOOLEAN : Tier3Ask(yes)
    \/ Tier3Search
    \/ Tier4Estimate
    \/ Tier4Search
    \/ \E input \in {"a", "l", "s"} : Tier4Menu(input)
    \/ LimitHead
    \/ \E input \in LimitInputs : LimitMenu(input)
    \/ LimitSearch
    \/ LimitElse
    \/ LimitExit
    \/ Backstop
    \/ \E i \in SelectInputs : PPMSelect(i)
    \/ \E action \in UNION {[1..n -> Dispositions] : n \in 0..NTx} :
          Len(action) = Len(ppm.selected_combo) /\ PPMActions(action)
    \/ PPMDelete
    \/ PPMReconcile
    \/ PPMExclude
    \/ PPMCheckpoint
    \/ PPMAutoMark
    \/ PPMAutoCheckpoint
    \/ AfterProcess
    \/ PrintSummary
    \/ Crash

(***************************************************************************)
(* The matcher called on its own: the serial search, and the parallel       *)
(* search with its worker tasks.                                           *)
(***************************************************************************)
\* The sizes a matcher run may be asked for: 0 .. MaxPool + 1.
Sizes == 0..(MaxPool + 1)

\* The pool's transaction date in the matcher specification (the matcher
\* never reads it).
MatchDate == 1

\* Ids of the matcher specification's pools: distinct, as a PRIMARY KEY is,
\* and different from the positions.
MatchId(i) == 100 + i

\* The pools of the matcher specification.
MatchPools ==
    UNION {{[i \in 1..n |-> <<MatchId(i), MatchDate, f[i]>>] :
                f \in [1..n -> MatchAmounts]} : n \in 0..MaxPool}

\* No function has been called on its own.
NoCall ==
    [fn |-> "", args |-> <<>>, calibrated |-> FALSE, result |-> <<>>,
     proceed |-> <<>>]

\* The matcher at rest.
MatcherIdle ==
    /\ call = NoCall
    /\ mpc = "idle"
    /\ mTransactions = <<>>
    /\ mDiscrepancy = 0
    /\ mRmin = 0
    /\ mRmax = 0
    /\ mResult = <<>>
    /\ results = [r \in Sizes |-> "none"]
    /\ taskValue = [r \in Sizes |-> <<>>]
    /\ getIdx = 0
    /\ finished = <<>>
    /\ valid_combinations = <<>>

\* A matcher run about to start on some pool, discrepancy and size range.
MatcherInit ==
    /\ call = NoCall
    /\ mpc = "start"
    /\ mTransactions \in MatchPools
    /\ mDiscrepancy \in MatchDiscrepancies
    /\ mRmin \in Sizes
    /\ mRmax \in Sizes
    /\ mResult = <<>>
    /\ results = [r \in Sizes |-> "none"]
    /\ taskValue = [r \in Sizes |-> <<>>]
    /\ getIdx = 0
    /\ finished = <<>>
    /\ valid_combinations = <<>>

\* find_matching_transactions_serial called on the inputs.
SerialCall ==
    /\ mpc = "start"
    /\ mResult' = find_matching_transactions_serial(mTransactions, mDiscrepancy,
                                                    mRmin, mRmax)
    /\ mpc' = "serial_done"
    /\ UNCHANGED <<ovars, call, mTransactions, mDiscrepancy, mRmin, mRmax, results,
                   taskValue, getIdx, finished, valid_combinations>>

\* find_matching_transactions_parallel, line 801: one apply_async per size.
ParDispatch ==
    /\ mpc = "start"
    /\ results' = [r \in Sizes |->
                      IF mRmin <= r /\ r <= mRmax THEN "queued" ELSE "none"]
    /\ getIdx' = 1
    /\ mpc' = "par_collect"
    /\ UNCHANGED <<ovars, call, mTransactions, mDiscrepancy, mRmin, mRmax, mResult,
                   taskValue, finished, valid_combinations>>

\* A pool worker runs process_combinations for size r to its end; the tasks
\* finish in any order.
ParWorker(r) ==
    /\ results[r] = "queued"
    /\ taskValue' = [taskValue EXCEPT
                        ![r] = process_combinations(mTransactions, mDiscrepancy, r)]
    /\ results' = [results EXCEPT ![r] = "ready"]
    /\ finished' = Append(finished, r)
    /\ UNCHANGED <<ovars, call, mpc, mTransactions, mDiscrepancy, mRmin, mRmax, mResult,
                   getIdx, valid_combinations>>

\* Line 804: the next result.get() of the list comprehension returns (it
\* blocks until that task is ready); a non-empty value is kept.
ParGet ==
    /\ mpc = "par_collect"
    /\ getIdx <= Len(SizeRange(mRmin, mRmax))
    /\ LET r == SizeRange(mRmin, mRmax)[getIdx]
       IN  /\ results[r] = "ready"
           /\ valid_combinations' =
                 IF taskValue[r] # <<>>
                 THEN Append(valid_combinations, taskValue[r])
                 ELSE valid_combinations
    /\ getIdx' = getIdx + 1
    /\ UNCHANGED <<ovars, call, mpc, mTransactions, mDiscrepancy, mRmin, mRmax, mResult,
                   results, taskValue, finished>>

\* Lines 805-810: every result collected; close, join, flatten, return.
ParReturn ==
    /\ mpc = "par_collect"
    /\ getIdx > Len(SizeRange(mRmin, mRmax))
    /\ mResult' = Flatten(valid_combinations)
    /\ mpc' = "par_done"
    /\ UNCHANGED <<ovars, call, mTransactions, mDiscrepancy, mRmin, mRmax, results,
                   taskValue, getIdx, finished, valid_combinations>>

MatcherNext ==
    \/ SerialCall
    \/ ParDispatch
    \/ \E r \in Sizes : ParWorker(r)
    \/ ParGet
    \/ ParReturn

(***************************************************************************)
(* The estimator and the quantization called on their own, any number of   *)
(* times in one process.                                                   *)
(***************************************************************************)
\* The largest num_transactions and size an estimate is asked for.
MaxEstimate == 6

\* The Money values quantized, in mills: around the ties at 0.005, 0.015 and
\* 1.005 on both sides of zero.
QuantizeInputs ==
    {-1006, -1005, -1004, -1000, -16, -15, -14, -6, -5, -4, 0,
     4, 5, 6, 14, 15, 16, 1000, 1004, 1005, 1006}

\* estimate_processing_time(num_transactions, r_min, r_max) called (lines
\* 730-745); the first call of the process calibrates.
EstimateCall(num_transactions, r_min, r_max) ==
    /\ pc = "off"
    /\ mpc = "idle"
    /\ \E tpc \in TpcChoices \cup {time_per_combination} :
          /\ Calibrated(tpc)
          /\ time_per_combination' = tpc
          /\ call' = [fn |-> "estimate_processing_time",
                      args |-> <<num_transactions, r_min, r_max>>,
                      calibrated |-> Calibrates,
                      result |-> estimate_processing_time(num_transactions, r_min,
                                                          r_max, tpc),
                      proceed |-> <<>>]
    /\ UNCHANGED <<mpc, mTransactions, mDiscrepancy, mRmin, mRmax, mResult, results,
                   taskValue, getIdx, finished, valid_combinations>>
    /\ UNCHANGED <<ledger, disk, conn, runv, pc, ai, balance_df, leftBy,
                   reconciliation_summary, exported, fetched, resolved, pool,
                   potential_matches, limits, ppm>>

\* The pool sizes a tier decides on: below, at and above the ten
\* transactions of lines 517, 579 and 609.
DecisionSizes == {1, 9, 10}

\* The decision of a tier on a pool of num transactions (lines 513-517,
\* 575-579, 606-609): the estimate, then whether the 5-day or the wider
\* recent pool is searched without the yes/no prompt, and whether all
\* transactions are searched without the menu.
DecideCall(num) ==
    /\ pc = "off"
    /\ mpc = "idle"
    /\ \E tpc \in TpcChoices \cup {time_per_combination} :
          /\ Calibrated(tpc)
          /\ time_per_combination' = tpc
          /\ LET est == estimate_processing_time(num, 1, NoneRmax, tpc)
             IN  call' = [fn |-> "proceed", args |-> <<num>>,
                          calibrated |-> Calibrates, result |-> est,
                          proceed |-> <<SearchWithoutAsking(est, num),
                                        SearchAllWithoutAsking(est, num)>>]
    /\ UNCHANGED <<mpc, mTransactions, mDiscrepancy, mRmin, mRmax, mResult, results,
                   taskValue, getIdx, finished, valid_combinations>>
    /\ UNCHANGED <<ledger, disk, conn, runv, pc, ai, balance_df, leftBy,
                   reconciliation_summary, exported, fetched, resolved, pool,
                   potential_matches, limits, ppm>>

\* Decimal(x).quantize(cent) called on a Money value (lines 479, 794).
QuantizeCall(x) ==
    /\ pc = "off"
    /\ mpc = "idle"
    /\ call' = [fn |-> "quantize", args |-> <<x>>, calibrated |-> FALSE,
                result |-> <<Quantize(x)>>, proceed |-> <<>>]
    /\ UNCHANGED <<mpc, mTransactions, mDiscrepancy, mRmin, mRmax, mResult, results,
                   taskValue, getIdx, finished, valid_combinations, ovars>>

(***************************************************************************)
(* Specifications.                                                         *)
(***************************************************************************)
\* The ledgers of the one-run specification; the dates ascend with the ids.
LedgerDates ==
    {f \in [TxIds -> DateSet] : \A t \in TxIds : t < NTx => f[t] <= f[t + 1]}

LedgerAmountMaps == [TxIds -> LedgerAmounts]

\* One run of reconcile_accounts over a seeded database.
Init == MatcherIdle /\ OrchInit(AccountMaps, LedgerDates, LedgerAmountMaps, 1)

Next == OrchNext

Spec == Init /\ [][Next]_vars

\* The ledgers of the re-run specification: every transaction on A1.
RerunAccountMaps == {[t \in TxIds |-> "A1"]}

RerunDates == {f \in LedgerDates : f[NTx] = 9}

RerunAmountMaps == {f \in LedgerAmountMaps : f[1] = 10}

\* MaxRuns runs of reconcile_accounts, one after the other, over one database.
InitRerun ==
    MatcherIdle /\ OrchInit(RerunAccountMaps, RerunDates, RerunAmountMaps, MaxRuns)

SpecRerun == InitRerun /\ [][Next]_vars

\* A process that calls the estimator and the quantization.
InitCalls == MatcherIdle /\ OrchIdle

NextCalls ==
    \/ \E num_transactions \in 0..MaxEstimate, r_min \in 0..(MaxEstimate + 1),
          r_max \in {NoneRmax} \cup 0..(MaxEstimate + 1) :
          EstimateCall(num_transactions, r_min, r_max)
    \/ \E num \in DecisionSizes : DecideCall(num)
    \/ \E x \in QuantizeInputs : QuantizeCall(x)

SpecCalls == InitCalls /\ [][NextCalls]_vars

\* The matcher called on its own.
InitMatcher == MatcherInit /\ OrchIdle

NextMatcher == MatcherNext

SpecMatcher == InitMatcher /\ [][NextMatcher]_vars

(***************************************************************************)
(* Properties of the matcher (specification SpecMatcher).                  *)
(***************************************************************************)
\* The sequences of a result as a set.
SeqToCombos(res) == {res[i] : i \in 1..Len(res)}

RECURSIVE PositionsSum(_, _)
\* The amounts, in mills, of the pool's tuples at the positions S, added up.
PositionsSum(transactions, S) ==
    IF S = {} THEN 0
    ELSE LET p == CHOOSE q \in S : TRUE
         IN  TransAmount(transactions[p]) + PositionsSum(transactions, S \ {p})

RECURSIVE AtPositions(_, _)
\* The pool's tuples at the positions S, in the order of the pool.
AtPositions(transactions, S) ==
    IF S = {} THEN <<>>
    ELSE LET p == CHOOSE q \in S : \A o \in S : q <= o
         IN  <<transactions[p]>> \o AtPositions(transactions, S \ {p})

\* The subsets of the pool, as sets of positions, of a size in [r_min, r_max]
\* whose amounts add up, to the cent, to -d.
MatchingSubsets(transactions, d, r_min, r_max) ==
    {S \in SUBSET (1..Len(transactions)) :
        /\ r_min <= Cardinality(S)
        /\ Cardinality(S) <= r_max
        /\ Quantize(PositionsSum(transactions, S)) = -d}

\* C1: find_matching_transactions_serial returns exactly the subsets of the
\* pool of a size in [r_min, r_max] whose amount sum, quantized to the cent,
\* equals -d: each returned combination is such a subset, each such subset
\* is returned, and none is returned twice.
C1_SerialExact ==
    mpc = "serial_done" =>
        LET wanted == MatchingSubsets(mTransactions, mDiscrepancy, mRmin, mRmax)
        IN  /\ \A i \in 1..Len(mResult) :
                  \E S \in wanted : mResult[i] = AtPositions(mTransactions, S)
            /\ \A S \in wanted :
                  \E i \in 1..Len(mResult) : mResult[i] = AtPositions(mTransactions, S)
            /\ \A i, j \in 1..Len(mResult) : mResult[i] = mResult[j] => i = j

\* C1 at work: a serial search over a pool of three that returned
\* combinations of two different sizes and left others out.
C1_Witness ==
    /\ mpc = "serial_done"
    /\ Len(mTransactions) = 3
    /\ \E i, j \in 1..Len(mResult) : Len(mResult[i]) < Len(mResult[j])
    /\ Len(mResult) < SumComb(3, mRmin, mRmax)

\* C2: the parallel search returns the same set of combinations as the
\* serial search on the same inputs, whatever the order in which the worker
\* tasks ran and completed.
C2_ParallelEqualsSerial ==
    mpc = "par_done" =>
        SeqToCombos(mResult) =
            SeqToCombos(find_matching_transactions_serial(mTransactions, mDiscrepancy,
                                                          mRmin, mRmax))

\* C2 at work: a task of a larger size finished before one of a smaller size,
\* and the tasks of two sizes each found matches.
C2_Witness ==
    /\ mpc = "par_done"
    /\ \E i, j \in 1..Len(finished) : i < j /\ finished[i] > finished[j]
    /\ Len(valid_combinations) >= 2

(***************************************************************************)
(* Properties of the reconciliation run (specifications Spec, SpecRerun).  *)
(***************************************************************************)
\* An account is being processed and its locals are assigned.
InAccount == pc \notin {"off", "main", "account", "ended"}

\* The ids of the transactions that were unreconciled when the account was
\* fetched.
FetchedIds == IdSet(all_unreconciled_transactions)

\* process_potential_matches has just returned True for a combination the
\* user selected.
UserApplied == pc = "ppm_return" /\ resolved /\ ~ppm.display_only

\* C3: after process_potential_matches applied a user-selected combination
\* and returned True, whatever the dispositions, every transaction of the
\* account that was unreconciled and is not in the chosen combination is
\* marked reconciled with reconcile_date equal to the balance date.
C3_OthersReconciled ==
    UserApplied =>
        \A t \in FetchedIds \ IdSet(ppm.selected_combo) :
            /\ conn.transactions[t].reconciled
            /\ conn.transactions[t].reconcile_date = current_balance_date

\* C3 where it does hold: a user-applied combination with an excluded member
\* and another unreconciled transaction on the account.
C3_Witness ==
    /\ UserApplied
    /\ ppm.exclude_ids # <<>>
    /\ FetchedIds \ IdSet(ppm.selected_combo) # {}

\* C4: every candidate combination handed to process_potential_matches has a
\* cent-quantized amount sum equal to -discrepancy, and each exact
\* single-transaction match is a candidate of size one of its own.
C4_CandidatesResolve ==
    pc \in {"ppm_select", "ppm_auto_mark"} =>
        /\ \A i \in 1..Len(potential_matches) :
              ComboSum(potential_matches[i]) = -discrepancy
        /\ ppm.caller = "exact" =>
              \A i \in 1..Len(potential_matches) : Len(potential_matches[i]) = 1

\* C4 where it does hold: the exact-match tier offers its only match.
C4_Witness ==
    /\ pc = "ppm_select"
    /\ ppm.caller = "exact"
    /\ Len(potential_matches[1]) = 1

\* The account has just been reconciled by the zero-discrepancy path.
ZeroDone ==
    /\ pc = "next"
    /\ reconciliation_summary[account].result = "Fully reconciled with no discrepancies."

\* C5: with a discrepancy of exactly 0.00 the account takes the zero path
\* only (no estimate, no search, no question, no export), and at its end
\* every transaction that was unreconciled is reconciled with the balance
\* date and the checkpoint is (current balance, current balance date), all
\* of it committed.
C5_ZeroPath ==
    /\ (InAccount /\ discrepancy = 0) =>
          /\ pc \in {"zero_mark", "zero_ckpt", "zero_commit", "next"}
          /\ pool = <<>> /\ potential_matches = <<>> /\ ppm = NoFrame
          /\ exported[account] = 0
    /\ (pc = "next" /\ discrepancy = 0) =>
          /\ ZeroDone
          /\ \A t \in FetchedIds :
                /\ disk.transactions[t].present
                /\ disk.transactions[t].reconciled
                /\ disk.transactions[t].reconcile_date = current_balance_date
          /\ Unreconciled(disk, account) = {}
          /\ disk.account_balances[account] =
                [has |-> TRUE, last_reconciled_balance |-> current_balance,
                 last_reconciled_date |-> current_balance_date]

\* C5 at work: the zero path has reconciled two transactions against a
\* balance that carries a sub-cent part.
C5_Witness ==
    /\ ZeroDone
    /\ Cardinality(FetchedIds) >= 2
    /\ current_balance # CentsToMills(Quantize(current_balance))

\* The account has just been reconciled: by the zero path, by an auto-applied
\* single match or by a user-applied combination, the commit included.
JustReconciled == pc = "next" /\ (ZeroDone \/ resolved)

\* The account's rows of transactions and its checkpoint in db.
AccountPart(db, acct) ==
    <<[t \in {u \in TxIds : txAccount[u] = acct} |-> db.transactions[t]],
      db.account_balances[acct]>>

\* C6 as stated: right after a successful reconciliation,
\* last_reconciled_balance equals the balance the checkpoint was seeded with
\* plus the sum, to the cent, of the amounts of all transactions of the
\* account dated on or before last_reconciled_date.
C6_BalanceIsLedgerSum ==
    JustReconciled =>
        LET checkpoint == disk.account_balances[account]
            seeded == disk0.account_balances[account].last_reconciled_balance
            dated == {t \in OnAccount(disk, account) :
                         txDate[t] <= checkpoint.last_reconciled_date}
        IN  Quantize(checkpoint.last_reconciled_balance - seeded - SumOf(dated)) = 0

\* C6 amended: right after a successful reconciliation the checkpoint holds
\* the current balance, to the cent, and the current balance date; on the
\* zero path that balance is, to the cent, the previous checkpoint balance
\* plus the sum of the amounts of the transactions the step has reconciled.
C6_CheckpointIsBalance ==
    JustReconciled =>
        LET checkpoint == disk.account_balances[account]
        IN  /\ checkpoint.has
            /\ checkpoint.last_reconciled_date = current_balance_date
            /\ Quantize(checkpoint.last_reconciled_balance) = Quantize(current_balance)
            /\ resolved =>
                  checkpoint.last_reconciled_balance = CentsToMills(Quantize(current_balance))
            /\ ZeroDone =>
                  /\ Quantize(checkpoint.last_reconciled_balance - last_reconciled_balance
                              - SumAmounts(all_unreconciled_transactions)) = 0
                  /\ \A t \in FetchedIds : disk.transactions[t].reconciled

\* C6 at work: a combination with an excluded transaction has been applied
\* against a balance with a sub-cent part.
C6_Witness ==
    /\ JustReconciled
    /\ resolved
    /\ ppm.exclude_ids # <<>>
    /\ current_balance # CentsToMills(Quantize(current_balance))

\* A commit of the resolution of the account being processed: the database
\* file takes everything the connection has executed, the checkpoint
\* included, and nothing of another account changes.
CompleteCommit ==
    /\ pc \in {"zero_commit", "ppm_return"}
    /\ disk' = conn
    /\ conn.account_balances[account].last_reconciled_date = current_balance_date
    /\ Quantize(conn.account_balances[account].last_reconciled_balance)
          = Quantize(current_balance)
    /\ \A a \in Accounts \ {account} : AccountPart(disk', a) = AccountPart(disk, a)

\* C7: the mutations of one account's resolution become durable as a single
\* unit: statements are pending only while a resolution is being applied,
\* and the database file changes only by the commit of the complete
\* resolution of the account being processed, so a failure before the commit
\* persists none of them and no commit persists a part of another account's.
C7_AtomicResolution ==
    /\ [](conn # disk => pc \in Applying)
    /\ [][disk' # disk => CompleteCommit]_vars

\* C7 at work: the process died between the first mutation and the commit,
\* the pending statements were rolled back, and the file is as the run found
\* it.
C7_Witness ==
    /\ exit = "killed, rolled back"
    /\ disk = disk0

\* C10 as stated: an account with a non-zero discrepancy whose processing
\* ends without a resolution has export_reconciliation_details called for it
\* before the next account is processed.
C10_UnresolvedExported ==
    (pc = "next" /\ discrepancy # 0 /\ ~resolved) => exported[account] >= 1

\* C10 where it does hold: every search exhausted, the backstop exported.
C10_Witness ==
    /\ pc = "next"
    /\ discrepancy # 0
    /\ ~resolved
    /\ reconciliation_summary[account].result = "NOT reconciled."
    /\ exported[account] = 1

\* The for loop is at an account that has no row in account_balances.
AtNoCheckpoint ==
    /\ pc = "account"
    /\ ai <= Len(accounts)
    /\ ~conn.account_balances[account].has

\* C11 as stated: a failure while processing one account (the account has no
\* checkpoint) does not stop the run: while accounts follow it in the
\* account list, the step taken at it does not end the process.
C11_FailureDoesNotStopRun ==
    [][(AtNoCheckpoint /\ ai < Len(accounts)) => pc' # "ended"]_vars

\* C12: at an account that has no checkpoint row reconcile_accounts stops
\* with the error exit, and the step neither creates a checkpoint for the
\* account nor changes any of its transactions (nor anything else on file).
C12_NoCheckpointNoFabrication ==
    [][AtNoCheckpoint =>
          /\ pc' = "ended"
          /\ exit' = "exit 1"
          /\ ~disk'.account_balances[account].has
          /\ AccountPart(disk', account) = AccountPart(disk, account)
          /\ disk' = disk]_vars

\* C12 at work: the run has ended with exit status 1 on a ledger with two
\* accounts, one of them without a checkpoint row, the file as it was.
C12_Witness ==
    /\ pc = "ended"
    /\ exit = "exit 1"
    /\ disk = disk0
    /\ \E a \in Accounts :
           /\ OnAccount(disk, a) # {}
           /\ ~disk.account_balances[a].has
    /\ \E a \in Accounts :
           /\ OnAccount(disk, a) # {}
           /\ disk.account_balances[a].has

\* C13: a combination is applied without an interactive selection
\* (display_only) only by the search of the 5-day pool and only when that
\* search returned exactly one candidate; on every other way, and whenever
\* two or more candidates were returned, nothing is written to the database
\* or committed for an account with a discrepancy unless the user has
\* selected one of the candidates.
C13_AutoApplyOnlySingleRecent ==
    /\ [](ppm.display_only =>
            /\ ppm.caller = "tier2_single"
            /\ Len(potential_matches) = 1
            /\ ppm.selected_combo = potential_matches[1]
            /\ IdSet(pool) = Last5DaysRows(conn, account, current_balance_date))
    /\ []((InAccount /\ discrepancy # 0 /\ conn # disk /\ ~ppm.display_only) =>
            ppm.selected_combo \in SeqToSet(potential_matches))
    /\ [][(InAccount /\ discrepancy # 0 /\ disk' # disk /\ ~ppm.display_only) =>
            ppm.selected_combo \in SeqToSet(potential_matches)]_vars

\* C13 at work: the only candidate of the 5-day search is being applied
\* without a selection, its transaction left unreconciled as pending and the
\* others already marked.
C13_Witness ==
    /\ pc = "ppm_auto_ckpt"
    /\ ppm.display_only
    /\ Len(potential_matches) = 1
    /\ conn # disk

(***************************************************************************)
(* Properties of a re-run (specification SpecRerun).                       *)
(***************************************************************************)
\* C8 as stated: re-running on an account that an earlier run left resolved,
\* with the same balance and balance date, re-derives discrepancy 0.00 and
\* changes no transaction and no checkpoint.
C8_RerunIsIdempotent ==
    (InAccount /\ leftBy[account] \in {"zero", "resolved"}) =>
        /\ discrepancy = 0
        /\ AccountPart(disk, account) = AccountPart(disk0, account)

\* C8 amended: re-running on an account that an earlier run reconciled by the
\* zero-discrepancy path, with the same balance and balance date, re-derives
\* discrepancy 0.00 and changes no transaction and no checkpoint.
C8_RerunAfterZeroPath ==
    (InAccount /\ leftBy[account] = "zero") =>
        /\ discrepancy = 0
        /\ AccountPart(conn, account) = AccountPart(disk0, account)
        /\ AccountPart(disk, account) = AccountPart(disk0, account)

\* C8 at work: the re-run of a zero-path account with three transactions has
\* gone through the zero path again.
C8_Witness ==
    /\ run = MaxRuns
    /\ ZeroDone
    /\ leftBy[account] = "zero"
    /\ Cardinality(OnAccount(disk, account)) = NTx

\* The places where find_matching_transactions is called on pool.
Searching ==
    {"tier2_search", "tier3_search", "tier4_search", "tier4_all_search", "limit_search"}

\* C9 as stated: every pool passed to find_matching_transactions holds only
\* transactions of the account being reconciled that are unreconciled then.
C9_PoolsUnreconciled ==
    pc \in Searching =>
        \A i \in 1..Len(pool) : TransId(pool[i]) \in Unreconciled(conn, account)

\* C9 where it does hold: a pool of two unreconciled transactions before the
\* search of the last 5 days and around the last reconciled date.
C9_Witness ==
    /\ pc = "tier3_search"
    /\ Len(pool) = 2

\* C14 as stated: across any sequence of runs no checkpoint row is deleted
\* from the database file, and every overwrite sets last_reconciled_date to
\* a date not earlier than the date it replaces.
C14_CheckpointMovesForward ==
    [][\A a \in Accounts :
          disk.account_balances[a].has =>
             /\ disk'.account_balances[a].has
             /\ disk'.account_balances[a].last_reconciled_date
                  >= disk.account_balances[a].last_reconciled_date]_vars

\* C14 where it does hold: a second run, on a balance file as new as the
\* first run's, has overwritten the checkpoint the first run wrote.
C14_Witness ==
    /\ run = MaxRuns
    /\ pc = "next"
    /\ disk.account_balances[account] # disk0.account_balances[account]
    /\ disk.account_balances[account].last_reconciled_date
         >= disk0.account_balances[account].last_reconciled_date
    /\ disk0.account_balances[account].last_reconciled_date \in BalanceDates

\* C15 as stated: for an account with a non-zero discrepancy no combinatorial
\* search runs before the exact single-transaction check: a search of a pool
\* that is not empty is one of those that control reaches only through the
\* exact check.
C15_ExactBeforeSearch ==
    (InAccount /\ discrepancy # 0 /\ pc \in Searching /\ pool # <<>>) =>
        pc \in {"tier3_search", "tier4_search", "tier4_all_search", "limit_search"}

\* C15 where it does hold: the 5-day search was declined, the exact check
\* found no transaction, and the first search is the one after it.
C15_Witness ==
    /\ pc = "tier3_search"
    /\ potential_matches = <<>>
    /\ Len(pool) >= 2
    /\ SelectExact(all_unreconciled_transactions, discrepancy) = <<>>

\* The tier control is in, in the order of the code: 1 the 5-day pool, 2 the
\* exact matches, 3 the 5 days and the days around the last reconciled
\* date, 4 all unreconciled transactions, 5 the size-capped loop, 6 past
\* every tier; 0 on the zero-discrepancy path.
TierOf ==
    LET at == IF pc \in {"ppm_select", "ppm_actions", "ppm_delete", "ppm_reconcile",
                         "ppm_exclude", "ppm_ckpt", "ppm_auto_mark",
                         "ppm_auto_ckpt", "ppm_return"}
              THEN ppm.caller ELSE pc
    IN  CASE at \in {"tier2_estimate", "tier2_ask", "tier2_search",
                     "tier2_single", "tier2_multi"} -> 1
          [] at = "exact" -> 2
          [] at \in {"tier3_estimate", "tier3_ask", "tier3_search", "tier3"} -> 3
          [] at \in {"tier4", "tier4_search", "tier4_menu", "tier4_all_search",
                     "tier4_all"} -> 4
          [] at \in {"limit_head", "limit_menu", "limit_search", "limit_else",
                     "limit_exit", "limit"} -> 5
          [] at \in {"backstop", "next"} -> 6
          [] OTHER -> 0

Prompts == {"tier2_ask", "tier3_ask", "tier4_menu", "limit_menu"}

\* C20: in every tier a combinatorial search is started either straight
\* from the estimate of its pool, and then the estimated time is below the
\* reasonable-time threshold, or by an answer to the prompt of that search
\* (yes, 'a', a size cap); an answer that starts no search moves control
\* past the tier or out of the loop, and control never comes back to a tier
\* it has left, so the pool of a declined search is not searched.
C20_NoLongSearchUnasked ==
    /\ [][(pc' \in Searching /\ pc \notin Searching) =>
            /\ TierOf' = TierOf
            /\ \/ pc \in Prompts
               \/ estimate_processing_time(Len(pool'), 1, NoneRmax,
                                           time_per_combination')[1]
                     < reasonable_time_threshold]_vars
    /\ [][(pc \in Prompts /\ pc' \notin Searching /\ pc' # "limit_head") =>
            (TierOf' > TierOf \/ pc' = "limit_exit")]_vars
    /\ [][(InAccount /\ pc' \notin {"account", "ended"}) =>
            /\ TierOf' >= TierOf
            /\ pc = "limit_exit" => pc' = "backstop"]_vars

\* C20 at work: the estimate of the 5-day pool was at the threshold, the
\* user answered yes, and the search is about to run.
C20_Witness ==
    /\ pc = "tier2_search"
    /\ pool # <<>>
    /\ estimate_processing_time(Len(pool), 1, NoneRmax, time_per_combination)[1]
          = reasonable_time_threshold

(***************************************************************************)
(* Properties of the functions called on their own (specification          *)
(* SpecCalls).                                                             *)
(***************************************************************************)
\* C17: the combination count estimate_processing_time(n, r_min, r_max)
\* returns is the sum of C(n, r) for r from r_min to r_max inclusive, that
\* is the number of subsets of n transactions whose size is in that range,
\* r_max = None standing for n; so estimate_processing_time(n, 1, n) and
\* estimate_processing_time(n, 1) return the count 2^n - 1 for n >= 1.
C17_EstimateCountsCombinations ==
    call.fn = "estimate_processing_time" =>
        LET n == call.args[1]
            lo == call.args[2]
            hi == IF call.args[3] = NoneRmax THEN n ELSE call.args[3]
        IN  /\ call.result[2] =
                  Cardinality({S \in SUBSET (1..n) :
                                  lo <= Cardinality(S) /\ Cardinality(S) <= hi})
            /\ (n >= 1 /\ lo = 1 /\ hi = n) => call.result[2] = 2^n - 1
            /\ call.result[1] = call.result[2] * time_per_combination

\* C17 at work: the estimate for the largest pool, r_min = 1 and r_max left
\* to its default, has returned 2^n - 1.
C17_Witness ==
    /\ call.fn = "estimate_processing_time"
    /\ call.args = <<MaxEstimate, 1, NoneRmax>>
    /\ call.result[2] = 2^MaxEstimate - 1

\* C18: in one process calculate_time_per_combination runs in the first
\* call of estimate_processing_time and in no later one: an estimate
\* calibrates exactly when time_per_combination is None, it leaves a value
\* that is not None, and a stored value is never replaced, 0 included.
C18_CalibratedOnce ==
    [][(call'.fn = "estimate_processing_time" /\ call' # call) =>
          /\ call'.calibrated <=> (time_per_combination = NoneTpc)
          /\ time_per_combination' # NoneTpc
          /\ time_per_combination # NoneTpc =>
                 time_per_combination' = time_per_combination]_vars

\* C18 at work: an estimate made after the calibration had measured 0
\* seconds per combination has not calibrated again.
C18_Witness ==
    /\ call.fn = "estimate_processing_time"
    /\ ~call.calibrated
    /\ time_per_combination = 0
    /\ call.args[1] >= 1

\* C19 as stated: quantizing to the cent gives quantize(1.005) = 1.01 and
\* quantize(-1.005) = -1.00.
C19_HalfUpBothSigns ==
    call.fn = "quantize" =>
        /\ call.args[1] = 1005 => call.result[1] = 101
        /\ call.args[1] = -1005 => call.result[1] = -100

\* C19 where it does hold: 1.005 has been quantized to 1.01.
C19_Witness ==
    /\ call.fn = "quantize"
    /\ call.args[1] = 1005
    /\ call.result[1] = 101

LoopExhausted ==
    /\ pc = "limit_exit"
    /\ last_limit >= Len(all_unreconciled_transactions)

\* C22 as stated: whenever the size-capped loop ends by reporting that all
\* possible combinations have been gone through, the loop has run a search
\* for every subset size from 1 to the number of unreconciled transactions.
C22_ExhaustedMeansSearched ==
    LoopExhausted =>
        \A r \in 1..Len(all_unreconciled_transactions) :
            \E i \in 1..Len(loop_searches) :
                loop_searches[i][1] <= r /\ r <= loop_searches[i][2]

\* C22 where it does hold: the loop reports exhaustion after its searches
\* have covered every size of a pool of three.
C22_Witness ==
    /\ LoopExhausted
    /\ Len(all_unreconciled_transactions) = NTx
    /\ loop_searches # <<>>
    /\ \A r \in 1..NTx :
           \E i \in 1..Len(loop_searches) :
               loop_searches[i][1] <= r /\ r <= loop_searches[i][2]

\* C28: in the size-capped loop every search has a size cap strictly greater
\* than the cap of the search before it (the first one greater than 1) and
\* at most the number n of unreconciled transactions, so the loop runs at
\* most n - 1 searches; and from the head of the loop, once a combination
\* was applied or the cap has reached n, the loop is left.
C28_CapsStrictlyRise ==
    /\ [](LET n == Len(all_unreconciled_transactions)
          IN  /\ \A i \in 1..Len(loop_searches) :
                    /\ loop_searches[i][2] <= n
                    /\ loop_searches[i][1] < loop_searches[i][2]
                    /\ loop_searches[i][1] =
                          (IF i = 1 THEN 1 ELSE loop_searches[i - 1][2])
              /\ loop_searches # <<>> => Len(loop_searches) <= n - 1)
    /\ [][(pc = "limit_head"
             /\ (resolved \/ last_limit >= Len(all_unreconciled_transactions)))
           => pc' \in {"limit_else", "limit_exit"}]_vars

\* C28 at work: on three unreconciled transactions the loop has run its two
\* searches, with caps 2 and 3, and has ended.
C28_Witness ==
    /\ pc = "limit_exit"
    /\ Len(all_unreconciled_transactions) = NTx
    /\ Len(loop_searches) = NTx - 1

\* C26 as stated: when the account loop of reconcile_accounts has ended,
\* every account that was processed has a 'result' in its entry of
\* reconciliation_summary, whatever path it took.
C26_EveryAccountHasResult ==
    (pc = "account" /\ ai > Len(accounts)) =>
        \A a \in Accounts :
            reconciliation_summary[a].has => reconciliation_summary[a].result # ""

\* C26 where it does hold: the loop has ended, both accounts were processed
\* and both have a result.
C26_Witness ==
    /\ pc = "account"
    /\ ai > Len(accounts)
    /\ \A a \in Accounts : /\ reconciliation_summary[a].has
                            /\ reconciliation_summary[a].result # ""

\* C27 as stated: export_reconciliation_details is called at most once for
\* an account in a run.
C27_ExportedAtMostOnce ==
    \A a \in Accounts : exported[a] <= 1

\* C27 where it does hold: the account loop has ended, an unresolved
\* account was exported exactly once and no account more than once.
C27_Witness ==
    /\ pc = "account"
    /\ ai > Len(accounts)
    /\ \E a \in Accounts : exported[a] = 1
    /\ \A a \in Accounts : exported[a] <= 1

\* C25: when process_potential_matches returns False (the user skips, types
\* something that is not a number, or a number outside 1..number of
\* candidates) the returning step has changed or deleted no transaction and
\* has left the checkpoint alone, and at the return the connection holds
\* nothing that is not on file.
C25_RefusalChangesNothing ==
    /\ [][(pc = "ppm_select" /\ pc' = "ppm_return") =>
              /\ ~resolved'
              /\ conn' = conn
              /\ disk' = disk]_vars
    /\ []((pc = "ppm_return" /\ ~resolved) => conn = disk)

\* C25 at work: process_potential_matches has returned False on a choice
\* among several candidates.
C25_Witness ==
    /\ pc = "ppm_return"
    /\ ~resolved
    /\ Len(potential_matches) >= 2
    /\ conn = disk

(***************************************************************************)
(* Properties of reconciled transactions (specification SpecRerun).        *)
(***************************************************************************)
\* C24 as stated: a transaction that is on file as reconciled is never
\* deleted and never has its reconciled flag or its reconcile_date changed:
\* reconcile_date changes on file only where reconciled goes from false to
\* true.
C24_ReconciledIsFinal ==
    [][\A t \in TxIds :
          /\ (disk.transactions[t].present /\ disk.transactions[t].reconciled)
                => disk'.transactions[t] = disk.transactions[t]
          /\ (/\ disk.transactions[t].present
              /\ disk'.transactions[t].present
              /\ disk'.transactions[t].reconcile_date
                    # disk.transactions[t].reconcile_date)
                => (~disk.transactions[t].reconciled
                        /\ disk'.transactions[t].reconciled)]_vars

\* C24 where it does hold: in the second run a resolution is committed and
\* the transactions the first run had reconciled are on file as it left them.
C24_Witness ==
    /\ run = MaxRuns
    /\ pc = "next"
    /\ resolved
    /\ disk # disk0
    /\ \E t \in TxIds : disk0.transactions[t].present /\ disk0.transactions[t].reconciled
    /\ \A t \in TxIds :
          (disk0.transactions[t].present /\ disk0.transactions[t].reconciled)
              => disk.transactions[t] = disk0.transactions[t]

\* process_potential_matches has returned True after a resolution in which
\* every member of the chosen combination was excluded; the commit is still
\* to come, so disk is the file as the resolution found it.
AllExcludedResolution ==
    /\ pc = "ppm_return"
    /\ resolved
    /\ ppm.exclude_ids # <<>>
    /\ ppm.delete_ids = <<>>
    /\ ppm.reconcile_ids = <<>>

\* C23 as stated: after a resolution in which every member of the chosen
\* combination is excluded, the new checkpoint balance minus the previous
\* one equals, to the cent, the sum of the amounts of the transactions the
\* resolution marked reconciled.
C23_CheckpointMovesByReconciled ==
    AllExcludedResolution =>
        Quantize(conn.account_balances[account].last_reconciled_balance
                    - disk.account_balances[account].last_reconciled_balance)
          = Quantize(SumOf({t \in TxIds : /\ conn.transactions[t].present
                                           /\ conn.transactions[t].reconciled
                                           /\ ~disk.transactions[t].reconciled}))

\* C23 where it does hold: a user-selected combination was excluded, other
\* transactions were marked reconciled and the checkpoint moved by their sum.
C23_Witness ==
    /\ AllExcludedResolution
    /\ ~ppm.display_only
    /\ \E t \in TxIds : conn.transactions[t].reconciled /\ ~disk.transactions[t].reconciled
    /\ conn.account_balances[account].last_reconciled_balance
          - disk.account_balances[account].last_reconciled_balance
        = SumOf({t \in TxIds : /\ conn.transactions[t].present
                                /\ conn.transactions[t].reconciled
                                /\ ~disk.transactions[t].reconciled})

====
